---- MODULE Spec2Model ----
(***************************************************************************)
(* pytrade.ext.dt: the trading-day oracle (is_workday,                     *)
(* get_latest_cn_trading_day), the holiday fetcher                         *)
(* (fetch_all_holiday_days over a 3-thread pool) with its JSON cache file, *)
(* and the special-event tagging (mark_special_events and                  *)
(* mark_special_events_faster).                                            *)
(*                                                                         *)
(* The specifications of the module:                                       *)
(*   SpecTag    the two taggers applied to dates of the event table's span *)
(*   Spec       the oracle: is_workday and the backward walk, one action   *)
(*              per is_workday call, the fetch batch it runs included      *)
(*   SpecFetch  one fetch batch step by step: the pool's queue, the        *)
(*              requests in flight, the write of the cache file, and a     *)
(*              second reader of the file                                  *)
(*   SpecMono   two calls of get_latest_cn_trading_day in a row            *)
(*   SpecDate   calls given a bare date, and a datetime at 00:00           *)
(*   SpecClock  is_workday calls while the calendar year changes           *)
(*   SpecFetchFair  the batch of SpecFetch under fair scheduling           *)
(*                                                                         *)
(* A date is <<year, month, day>>; dates compare as Python's date does,    *)
(* field by field.  TLA+ strings are ASCII, so the event names of          *)
(* SPECIAL_EVENTS are transliterated; the original name is in the comment  *)
(* of each row.                                                            *)
(***************************************************************************)
EXTENDS Integers, Sequences, FiniteSets, TLC

VARIABLES
    \* ---- event tagging
    date,           \* the argument of mark_special_events
    trade_dates,    \* the argument of mark_special_events_faster (a series)
    tagged,         \* what mark_special_events returned, or NotCalled
    result,         \* what mark_special_events_faster returned (<<>> before)
    \* ---- the remote provider and the cache file
    provider,       \* year -> the list of MMDD markers json_<year>.txt holds
    cache,          \* HOLIDAYS_CACHE_PATH: [kind, index]
    \* ---- get_latest_cn_trading_day
    pc,             \* "idle", "answered", "step1", "step2", "done", "raised"
    now,            \* [date, hour] of the reference instant, and what was given
    today,
    latest_trading_day,
    walked,         \* the dates is_workday was asked in this call, with the answers
    present,        \* today's year was in the cache file when this call began
    batched,        \* a fetch batch has run since this call began
    prev,           \* the call completed before this one
    \* ---- is_workday
    iw,             \* the last is_workday call a caller made: argument, file before, outcome
    \* ---- one fetch_all_holiday_days batch, step by step
    fpc,            \* "off", "gather", "merged", "opened", "dumped", "returned"
    start_year,
    end_year,
    submitted,      \* how many of years_to_fetch run_in_executor has handed to the pool
    queue,          \* the pool's work queue: years handed over, no thread yet
    running,        \* years whose requests.get is in flight, one thread each
    results,        \* year -> what _fetch_holiday_days_sync returned
    succeeded,      \* the years whose request ended well
    all_holiday_days,
    before,         \* the cache file when the batch began
    seen,           \* the file as a second thread's load last found it
    \* ---- the clock
    this_year       \* dt.date.today().year, as the clock has it now

tagVars == <<date, trade_dates, tagged, result>>
oracleVars == <<provider, cache, pc, now, today, latest_trading_day, walked,
                present, batched, prev, iw>>
fetchVars == <<fpc, start_year, end_year, submitted, queue, running, results,
               succeeded, all_holiday_days, before, seen>>
clockVars == <<this_year>>
vars == <<tagVars, oracleVars, fetchVars, clockVars>>

NotCalled == "not called"
\* Python's None, and pandas' <NA> of the "string" dtype.
None == "None"

----------------------------------------------------------------------------
(* Dates *)

DateLE(a, b) ==
    \/ a[1] < b[1]
    \/ a[1] = b[1] /\ a[2] < b[2]
    \/ a[1] = b[1] /\ a[2] = b[2] /\ a[3] <= b[3]

DateLT(a, b) == DateLE(a, b) /\ a # b

IsLeap(y) == (y % 4 = 0 /\ y % 100 # 0) \/ y % 400 = 0

DaysIn(y, m) ==
    IF m = 2 THEN (IF IsLeap(y) THEN 29 ELSE 28)
    ELSE IF m \in {4, 6, 9, 11} THEN 30 ELSE 31

\* strptime(s, "%Y-%m-%d").date() and pd.to_datetime(s) of a "YYYY-MM-DD"
\* string, the string held as the number its digits spell.
ParseDate(s) == <<s \div 10000, (s \div 100) % 100, s % 100>>

----------------------------------------------------------------------------
(* The event table, in definition order (a dict keeps insertion order). *)

SPECIAL_EVENTS == <<
    [name |-> "yazhou_jinrong_weiji",        span |-> <<19970701, 19981231>>],  \* 亚洲金融危机
    [name |-> "hulianwang_paomo_pomie",      span |-> <<20000301, 20021031>>],  \* 互联网泡沫破灭
    [name |-> "quanqiu_jinrong_weiji",       span |-> <<20080101, 20090630>>],  \* 全球金融危机
    [name |-> "ouzhai_weiji_weisheng",       span |-> <<20120101, 20130131>>],  \* 欧债危机尾声
    [name |-> "guquan_fenzhi_gaige",         span |-> <<20041201, 20051231>>],  \* 股权分置改革
    [name |-> "2016nian_gushi_rongduan",     span |-> <<20160104, 20160211>>],  \* 2016年股市熔断
    [name |-> "2015nian_guzai",              span |-> <<20150601, 20160229>>],  \* 2015年股灾
    [name |-> "rongduan_jizhi_duanzan_shixiao", span |-> <<20160104, 20160211>>],  \* 熔断机制短暂失效
    [name |-> "2003nian_SARS_yiqing",        span |-> <<20030201, 20030731>>],  \* 2003年SARS疫情
    [name |-> "2020nian_xinguan_yiqing_chuqi", span |-> <<20200130, 20200331>>],  \* 2020年新冠疫情初期
    [name |-> "2015nian_811_huigai_fengbo",  span |-> <<20150811, 20160131>>],  \* 2015年8·11汇改风波
    [name |-> "2018nian_zhongmei_maoyi_moca_gaofeng", span |-> <<20180706, 20181231>>],  \* 2018年中美贸易摩擦高峰
    [name |-> "2021nian_keji_jianguan_fengbao", span |-> <<20210701, 20211231>>],  \* 2021年科技监管风暴
    [name |-> "2007nian_Agu_paomo_ding",     span |-> <<20060701, 20071031>>],  \* 2007年A股泡沫顶
    [name |-> "2020nian_erci_rongduan_chuoding", span |-> <<20200203, 20200212>>],  \* 2020年二次熔断戳顶
    [name |-> "2015-06-26_rongduan_ri",      span |-> <<20150626, 20150626>>],  \* 2015-06-26熔断日
    [name |-> "2016-02-08_rongduan_ri",      span |-> <<20160208, 20160208>>],  \* 2016-02-08熔断日
    [name |-> "mayi_jituan_IPO_jiaoting",    span |-> <<20201103, 20201105>>],  \* 蚂蚁集团IPO叫停
    [name |-> "jiaoyu_hangye_shuangjian_zhengce", span |-> <<20210724, 20210726>>],  \* 教育行业“双减”政策
    [name |-> "keji_pingtai_fanlongduan_zhidao_yijian", span |-> <<20210924, 20210927>>],  \* 科技平台反垄断指导意见
    [name |-> "fangdichan_qu_dichan_jinronghua_biaotai", span |-> <<20220105, 20220107>>],  \* 房地产“去地产金融化”表态
    [name |-> "tandafeng_tanzhonghe_zhengce_qianghua", span |-> <<20220307, 20220308>>],  \* 碳达峰碳中和政策强化
    [name |-> "ziben_shichang_wending_biaotai", span |-> <<20230416, 20230418>>],  \* 资本市场稳定表态
    [name |-> "fangdichan_tiaokong_shengji_cuoshi", span |-> <<20230718, 20230720>>],  \* 房地产调控升级措施
    [name |-> "2024_lianghui_chanye_zhengce_jidiao", span |-> <<20240305, 20240307>>],  \* 2024“两会”产业政策基调
    [name |-> "2024_chaoyuqi_jiangzhun",     span |-> <<20240815, 20240817>>],  \* 2024超预期降准
    [name |-> "2025_kechuangban_shendu_fuchi_biaotai", span |-> <<20250305, 20250307>>]  \* 2025科创板深度扶持表态
>>

\* name -> (start date, end date), in the table's order.
load_special_events ==
    [i \in 1..Len(SPECIAL_EVENTS) |->
        [name  |-> SPECIAL_EVENTS[i].name,
         start |-> ParseDate(SPECIAL_EVENTS[i].span[1]),
         end   |-> ParseDate(SPECIAL_EVENTS[i].span[2])]]

\* The loop of mark_special_events from row i on: the first row whose closed
\* interval holds d returns its name.
\* A variant whose intervals leave their end dates out.
RECURSIVE FirstOpenMatchFrom(_, _, _)
FirstOpenMatchFrom(events, i, d) ==
    IF i > Len(events) THEN None
    ELSE IF DateLE(events[i].start, d) /\ DateLT(d, events[i].end)
         THEN events[i].name
         ELSE FirstOpenMatchFrom(events, i + 1, d)

RECURSIVE FirstMatchFrom(_, _, _)
FirstMatchFrom(events, i, d) ==
    IF i > Len(events) THEN None
    ELSE IF DateLE(events[i].start, d) /\ DateLE(d, events[i].end)
         THEN events[i].name
         ELSE FirstMatchFrom(events, i + 1, d)

mark_special_events(d) == FirstMatchFrom(load_special_events, 1, d)

\* (intervals, labels): pd.IntervalIndex(intervals) keeps the list's order.
build_event_interval_index(events) ==
    [i \in 1..Len(events) |->
        [left  |-> ParseDate(events[i].span[1]),
         right |-> ParseDate(events[i].span[2]),
         label |-> events[i].name]]

\* Series.between(left, right): inclusive on both sides.
Between(d, left, right) == DateLE(left, d) /\ DateLE(d, right)

\* The loop of mark_special_events_faster from row i on: every row assigns
\* its label to the positions its interval holds, over what an earlier row
\* wrote there.
RECURSIVE AssignFrom(_, _, _, _)
AssignFrom(index, i, dates, res) ==
    IF i > Len(index) THEN res
    ELSE AssignFrom(index, i + 1, dates,
            [k \in DOMAIN res |->
                IF Between(dates[k], index[i].left, index[i].right)
                THEN index[i].label
                ELSE res[k]])

mark_special_events_faster(series) ==
    AssignFrom(build_event_interval_index(SPECIAL_EVENTS), 1, series,
               [k \in DOMAIN series |-> None])

----------------------------------------------------------------------------
(* The oracle's calendar.  Python's datetime supplies the arithmetic; the  *)
(* model keeps, of every year, the first DaysPerMonth days of January and  *)
(* the last DaysPerMonth days of December, so that one step back from      *)
(* January 1 is December 31 of the year before, and the middle of the year *)
(* is left out.  date.min is the first day of the first modelled year.     *)

\* fetch_all_holiday_days' default start_year.
StartYear == 1990
\* dt.date.today().year when the module was imported is
\* StartYear + YearSpan: the default end_year.
YearSpan == 1
DefaultEndYear == StartYear + YearSpan
\* Years of dates before StartYear and after DefaultEndYear.
YearsBefore == 1
YearsAfter == 1
DaysPerMonth == 2

MinYear == StartYear - YearsBefore
MaxYear == DefaultEndYear + YearsAfter

Months == {1, 12}
DaysOf(m) == IF m = 1 THEN 1..DaysPerMonth ELSE (32 - DaysPerMonth)..31

OracleDates == {<<y, m, d>> \in (MinYear..MaxYear) \X Months \X (1..31) : d \in DaysOf(m)}

DateMin == <<MinYear, 1, 1>>

\* d - dt.timedelta(days=1), for d # DateMin (date.min - 1 day raises
\* OverflowError).
PrevDay(d) ==
    IF d[2] = 1 /\ d[3] = 1 THEN <<d[1] - 1, 12, 31>>
    ELSE IF d[2] = 12 /\ d[3] = 32 - DaysPerMonth THEN <<d[1], 1, DaysPerMonth>>
    ELSE <<d[1], d[2], d[3] - 1>>

Digit == <<"0", "1", "2", "3", "4", "5", "6", "7", "8", "9">>
Fmt2(n) == Digit[(n \div 10) + 1] \o Digit[(n % 10) + 1]

\* str(date.year), for a four-digit year.
YearStr(y) == Fmt2(y \div 100) \o Fmt2(y % 100)

\* date.strftime("%m%d")
Strftime(d) == Fmt2(d[2]) \o Fmt2(d[3])

Range(seq) == {seq[i] : i \in DOMAIN seq}

----------------------------------------------------------------------------
(* The remote provider: json_<year>.txt is a list of MMDD markers. *)

DefaultYears == StartYear..DefaultEndYear

FirstMarker == Strftime(<<StartYear, 1, 1>>)
LastMarker == Strftime(<<StartYear, 12, 31>>)
AllMarkers ==
    [i \in 1..(2 * DaysPerMonth) |->
        IF i <= DaysPerMonth THEN Strftime(<<StartYear, 1, i>>)
        ELSE Strftime(<<StartYear, 12, 31 - 2 * DaysPerMonth + i>>)]

\* What the provider may hold for a range of years: every day of every
\* year, the first day of every year, the last day of every year, no day at
\* all, or every day of the even years and none of the odd ones.
Providers(years) ==
    {[y \in years |-> AllMarkers],
     [y \in years |-> <<FirstMarker>>],
     [y \in years |-> <<LastMarker>>],
     [y \in years |-> << >>],
     [y \in years |-> IF y % 2 = 0 THEN AllMarkers ELSE << >>]}

\* How a request may end: requests.get's answer parsed, or one of the
\* exceptions the try block catches.
Responses == {"ok", "ConnectionError", "Timeout", "HTTPError", "JSONDecodeError"}
\* The oracle's batches tell only success from failure.
OracleResponses == {"ok", "Timeout"}

EmptyIndex == [k \in {} |-> << >>]
EmptyResults == [y \in {} |-> EmptyIndex]

\* {str(year): data} on success, {} on any exception.
\* A variant that keeps the failed year, with no markers.
FetchSyncKeepsFailedYear(year, response) ==
    [k \in {YearStr(year)} |-> IF response = "ok" THEN provider[year] ELSE << >>]

_fetch_holiday_days_sync(year, response) ==
    IF response = "ok"
    THEN [k \in {YearStr(year)} |-> provider[year]]
    ELSE EmptyIndex

\* range(start_year, end_year + 1), filtered by an empty dict: every year.
years_to_fetch(start, end) ==
    [i \in 1..(IF end >= start THEN end - start + 1 ELSE 0) |-> start + i - 1]

\* dict.update
\* A variant that leaves the dict as it was.
UpdateIgnored(a, b) == a

Update(a, b) ==
    [k \in DOMAIN a \cup DOMAIN b |-> IF k \in DOMAIN b THEN b[k] ELSE a[k]]

\* for result in results: all_holiday_days.update(result)
RECURSIVE MergeFrom(_, _, _)
MergeFrom(res, i, all) ==
    IF i > Len(res) THEN all
    ELSE MergeFrom(res, i + 1, Update(all, res[i]))

\* json.dump(all_holiday_days, f, ...): the text of an object, one member
\* <<key, list>> per key of the dict, in the dict's order (some fixed
\* order: what json.load builds does not depend on it).
RECURSIVE DumpMembers(_, _)
DumpMembers(index, keys) ==
    IF keys = {} THEN << >>
    ELSE LET k == CHOOSE x \in keys : TRUE
         IN  <<(<<k, index[k]>>)>> \o DumpMembers(index, keys \ {k})

json_dump(index) == DumpMembers(index, DOMAIN index)

\* json.load(f): the dict of the members read, a later member replacing an
\* earlier one of the same key.
RECURSIVE LoadMembers(_, _, _)
LoadMembers(text, i, obj) ==
    IF i > Len(text) THEN obj
    ELSE LoadMembers(text, i + 1,
                     [k \in DOMAIN obj \cup {text[i][1]} |->
                         IF k = text[i][1] THEN text[i][2] ELSE obj[k]])

\* A variant that stops after the first member.
json_load_first(text) ==
    LoadMembers(IF text = << >> THEN text ELSE <<Head(text)>>, 1, EmptyIndex)

json_load(text) == LoadMembers(text, 1, EmptyIndex)

\* The cache file: missing, the JSON of an index, or text json.load cannot
\* parse: damaged, empty (just truncated by open(..., "w")) or the first
\* part of a dump.  index is what json.load makes of the file.
Missing == [kind |-> "missing", index |-> EmptyIndex]
Corrupt == [kind |-> "corrupt", index |-> EmptyIndex]
Empty == [kind |-> "empty", index |-> EmptyIndex]
Partial == [kind |-> "partial", index |-> EmptyIndex]
Json(index) == [kind |-> "json", index |-> json_load(json_dump(index))]

\* A whole batch, the responses given: the index returned, which is also
\* what the file holds afterwards.
fetch_all_holiday_days(start, end, responses) ==
    LET years == years_to_fetch(start, end)
        res == [i \in DOMAIN years |->
                    _fetch_holiday_days_sync(years[i], responses[years[i]])]
    IN  MergeFrom(res, 1, EmptyIndex)

----------------------------------------------------------------------------
(* is_workday *)

\* year not in all_trading_days
\* A variant that fetches when the year is there.
YearPresent(all_trading_days, year) == year \in DOMAIN all_trading_days

YearAbsent(all_trading_days, year) == year \notin DOMAIN all_trading_days

\* all_trading_days.get(year, [])
\* A variant whose default is every marker.
GetOrAll(all_trading_days, year) ==
    IF year \in DOMAIN all_trading_days THEN all_trading_days[year] ELSE AllMarkers

Get(all_trading_days, year) ==
    IF year \in DOMAIN all_trading_days THEN all_trading_days[year] ELSE << >>

\* Whether is_workday(d), the file being c, reaches one of its two
\* asyncio.run(fetch_all_holiday_days()) lines.
\* A variant that never reaches the second.
FetchesWhenMissing(c, d) == c.kind = "missing"

\* A variant that fetches on every call that can read the file.
FetchesAlways(c, d) == c.kind \in {"missing", "json"}

Fetches(c, d) ==
    c.kind = "missing" \/ (c.kind = "json" /\ YearAbsent(c.index, YearStr(d[1])))

\* The ways the requests of the call's batch may end: one way, never looked
\* at, when the call runs no batch.
BatchResponses(c, d) ==
    IF Fetches(c, d) THEN [DefaultYears -> OracleResponses]
    ELSE {[y \in DefaultYears |-> "ok"]}

\* One call, the file being c and the batch's requests (if it runs one)
\* ending as responses say: what it raises or returns, the file afterwards
\* and the years requested of the provider.
is_workday(c, d, responses) ==
    LET year == YearStr(d[1])
        date_str == Strftime(d)
        fresh == fetch_all_holiday_days(StartYear, DefaultEndYear, responses)
        fetch == Fetches(c, d)
        all_trading_days == IF fetch THEN fresh ELSE c.index
    IN  IF c.kind \notin {"missing", "json"}
        THEN [raised |-> "JSONDecodeError", value |-> FALSE, cache |-> c,
              requests |-> {}, fetched |-> FALSE, batches |-> 0]
        ELSE [raised |-> None,
              value |-> date_str \in Range(Get(all_trading_days, year)),
              cache |-> IF fetch THEN Json(fresh) ELSE c,
              requests |-> IF fetch THEN DefaultYears ELSE {},
              fetched |-> fetch,
              \* line 69 in one branch, line 75 in the other
              batches |-> (IF fetch /\ c.kind = "missing" THEN 1 ELSE 0)
                          + (IF fetch /\ c.kind = "json" THEN 1 ELSE 0)]

NoCall ==
    [valid |-> FALSE, date |-> DateMin, before |-> Missing, raised |-> None,
     value |-> FALSE, requests |-> {}, fetched |-> FALSE, batches |-> 0]

Recorded(d, c, r) ==
    [valid |-> TRUE, date |-> d, before |-> c, raised |-> r.raised,
     value |-> r.value, requests |-> r.requests, fetched |-> r.fetched,
     batches |-> r.batches]

----------------------------------------------------------------------------
(* get_latest_cn_trading_day *)

CutoffHour == 9
\* The hours of a reference instant: midnight, the hour before the cutoff,
\* the cutoff hour (line 106 reads nothing of the instant but hour < 9).
Hours == {0, CutoffHour - 1, CutoffHour}

\* now.hour < 9
\* A variant that counts 09:00 as before the cutoff.
AtOrBeforeCutoff(hour) == hour <= CutoffHour

BeforeCutoff(hour) == hour < CutoffHour

\* while not is_workday(latest_trading_day)
\* A variant that lost the `not`.
WalksOnTradingDay(answer) == answer

WalksOn(answer) == ~answer

\* now.hour < 9 and latest_trading_day == today
\* A variant that lost the second half.
StepsBackWheneverEarly(hour, latest, td) == BeforeCutoff(hour)

\* A variant that steps back when the first walk did move.
StepsBackWhenMoved(hour, latest, td) == BeforeCutoff(hour) /\ latest # td

StepsBackAgain(hour, latest, td) == BeforeCutoff(hour) /\ latest = td

\* The record of the call that returned just before this one, no other
\* call between them: its date and result, whether its year was in the file
\* when it began (present) and whether it ran no batch (clean).
NoPrev ==
    [valid |-> FALSE, today |-> DateMin, result |-> DateMin,
     present |-> FALSE, clean |-> FALSE]

Idle ==
    /\ pc = "idle"
    /\ now = [date |-> DateMin, hour |-> 0, given |-> "nothing"]
    /\ today = DateMin
    /\ latest_trading_day = DateMin
    /\ walked = {}
    /\ present = FALSE
    /\ batched = FALSE

OracleUnused ==
    /\ provider = [y \in {} |-> << >>]
    /\ cache = Missing
    /\ Idle
    /\ prev = NoPrev
    /\ iw = NoCall

FetchUnused ==
    /\ fpc = "off"
    /\ start_year = StartYear
    /\ end_year = StartYear
    /\ submitted = 0
    /\ queue = << >>
    /\ running = {}
    /\ results = EmptyResults
    /\ succeeded = {}
    /\ all_holiday_days = EmptyIndex
    /\ before = Missing
    /\ seen = Missing

TagUnused ==
    /\ date = DateMin
    /\ trade_dates = << >>
    /\ tagged = NotCalled
    /\ result = << >>

\* The module has just been imported: line 37 has evaluated
\* dt.date.today().year, once, as the default of end_year.
ClockAtImport == this_year = DefaultEndYear

Init ==
    /\ TagUnused
    /\ ClockAtImport
    /\ FetchUnused
    /\ provider \in Providers(DefaultYears)
    /\ \E have \in SUBSET DefaultYears :
        cache \in {Missing, Corrupt,
                   Json(fetch_all_holiday_days(StartYear, DefaultEndYear,
                        [y \in DefaultYears |->
                            IF y \in have THEN "ok" ELSE "Timeout"]))}
    /\ Idle
    /\ prev = NoPrev
    /\ iw = NoCall

\* A caller asks is_workday(d) outside any walk; the call has answered
\* (returned or raised) and iw holds what it did.
IsWorkday(d) ==
    /\ pc = "idle"
    /\ \E responses \in BatchResponses(cache, d) :
        LET r == is_workday(cache, d, responses)
        IN  /\ iw' = Recorded(d, cache, r)
            /\ cache' = r.cache
            /\ prev' = NoPrev
    /\ pc' = "answered"
    /\ UNCHANGED <<provider, now, today, latest_trading_day, walked,
                   present, batched>>
    /\ UNCHANGED <<clockVars, tagVars, fetchVars>>

\* A datetime given as base_datetime: line 95 leaves it as it is.
Datetime(d, hour) == [date |-> d, hour |-> hour, given |-> "datetime"]

\* A bare date given as base_datetime: line 96,
\* dt.datetime.combine(now, dt.time.min).
\* A variant that puts the date at midday.
CombineMidday(d) == [date |-> d, hour |-> 12, given |-> "date"]

Combine(d) == [date |-> d, hour |-> 0, given |-> "date"]

\* Lines 94-101, the reference instant being instant.
Enter(instant) ==
    /\ pc = "idle"
    /\ now' = instant
    /\ today' = instant.date
    /\ latest_trading_day' = instant.date
    /\ walked' = {}
    /\ present' = (cache.kind = "json"
                    /\ YearStr(instant.date[1]) \in DOMAIN cache.index)
    /\ batched' = FALSE
    /\ pc' = "step1"
    /\ iw' = NoCall
    /\ UNCHANGED <<provider, cache, prev>>
    /\ UNCHANGED <<clockVars, tagVars, fetchVars>>

\* get_latest_cn_trading_day(datetime(d, hour)).
Call(d, hour) == Enter(Datetime(d, hour))

\* get_latest_cn_trading_day(d), d a date with no time.
CallDate(d) == Enter(Combine(d))

\* One turn of a `while not is_workday(latest_trading_day)` loop, with what
\* follows the loop when it ends.
Walk ==
    /\ pc \in {"step1", "step2"}
    /\ \E responses \in BatchResponses(cache, latest_trading_day) :
        LET r == is_workday(cache, latest_trading_day, responses)
        IN  /\ cache' = r.cache
            /\ walked' = walked \cup {<<latest_trading_day, r.value>>}
            /\ batched' = (batched \/ r.fetched)
            /\ IF r.raised # None
               THEN /\ pc' = "raised"
                    /\ UNCHANGED latest_trading_day
               ELSE IF WalksOn(r.value)
               THEN \* the loop's body
                    IF latest_trading_day = DateMin
                    THEN /\ pc' = "raised"   \* OverflowError
                         /\ UNCHANGED latest_trading_day
                    ELSE /\ pc' = pc
                         /\ latest_trading_day' = PrevDay(latest_trading_day)
               ELSE IF pc = "step1"
                       /\ StepsBackAgain(now.hour, latest_trading_day, today)
               THEN IF latest_trading_day = DateMin
                    THEN /\ pc' = "raised"   \* OverflowError
                         /\ UNCHANGED latest_trading_day
                    ELSE /\ pc' = "step2"
                         /\ latest_trading_day' = PrevDay(latest_trading_day)
               ELSE /\ pc' = "done"
                    /\ UNCHANGED latest_trading_day
    /\ UNCHANGED <<provider, now, today, present, prev, iw>>
    /\ UNCHANGED <<clockVars, tagVars, fetchVars>>

\* The call is over (returned or raised); the next one may begin.  With
\* keep, a call that returned is remembered in prev for the next to be
\* compared with.
Return(keep) ==
    /\ pc \in {"done", "raised", "answered"}
    /\ prev' = IF keep /\ pc = "done"
               THEN [valid |-> TRUE, today |-> today,
                     result |-> latest_trading_day,
                     present |-> present, clean |-> ~batched]
               ELSE NoPrev
    /\ pc' = "idle"
    /\ now' = [date |-> DateMin, hour |-> 0, given |-> "nothing"]
    /\ today' = DateMin
    /\ latest_trading_day' = DateMin
    /\ walked' = {}
    /\ present' = FALSE
    /\ batched' = FALSE
    /\ iw' = NoCall
    /\ UNCHANGED <<provider, cache>>
    /\ UNCHANGED <<clockVars, tagVars, fetchVars>>

Next ==
    \/ \E d \in OracleDates : IsWorkday(d)
    \/ \E d \in OracleDates, hour \in Hours : Call(d, hour)
    \/ Walk
    \/ Return(FALSE)

Spec == Init /\ [][Next]_vars

\* Calls with a bare date, and calls with the datetime of the same date at
\* 00:00.
NextDate ==
    \/ \E d \in OracleDates : CallDate(d)
    \/ \E d \in OracleDates : Call(d, 0)
    \/ Walk
    \/ Return(FALSE)

SpecDate == Init /\ [][NextDate]_vars

\* The process keeps running while the calendar year changes: is_workday
\* calls before and after New Year.
NewYear ==
    /\ pc = "idle"
    /\ this_year < MaxYear
    /\ this_year' = this_year + 1
    /\ UNCHANGED <<tagVars, oracleVars, fetchVars>>

NextClock ==
    \/ NewYear
    \/ \E d \in OracleDates : IsWorkday(d)
    \/ Return(FALSE)

SpecClock == Init /\ [][NextClock]_vars

\* Two calls of get_latest_cn_trading_day in a row, around the cutoff hour,
\* for dates of the years a batch can bring into the cache file.
MonoHours == {CutoffHour - 1, CutoffHour}
MonoDates == {d \in OracleDates : d[1] \in DefaultYears}

InitMono == Init /\ cache.kind = "json"

\* The first call returns and is remembered; the second is the last.
ReturnKept == ~prev.valid /\ Return(TRUE)

NextMono ==
    \/ \E d \in MonoDates, hour \in MonoHours : Call(d, hour)
    \/ Walk
    \/ ReturnKept

SpecMono == InitMono /\ [][NextMono]_vars

----------------------------------------------------------------------------
(* SpecFetch: one batch of fetch_all_holiday_days(start_year, end_year),   *)
(* the pool's threads and a second thread that loads the cache file.       *)

\* max_workers of the ThreadPoolExecutor.
MaxWorkers == 3

\* The pool starts a thread for a queued year while fewer than max_workers
\* are busy.
\* A variant off by one.
HasFreeThreadOrOneMore(busy) == busy <= MaxWorkers

\* A variant whose pool never starts a thread.
NoFreeThread(busy) == busy < 0

HasFreeThread(busy) == busy < MaxWorkers
\* The longest range of years a batch is asked for.
MaxYears == 5

FetchYears == StartYear..(StartYear + MaxYears - 1)

\* What the file held before: nothing, or an older index of every year,
\* with a list the provider holds for no year.
OldIndex == [k \in {YearStr(y) : y \in FetchYears} |-> <<LastMarker, FirstMarker>>]

NotSeen == [kind |-> "unread", index |-> EmptyIndex]

InitFetch ==
    /\ TagUnused
    /\ ClockAtImport
    /\ Idle
    /\ prev = NoPrev
    /\ iw = NoCall
    /\ provider \in Providers(FetchYears)
    /\ cache \in {Missing, Json(OldIndex)}
    /\ before = cache
    /\ fpc = "gather"
    /\ start_year \in {StartYear, StartYear + 1}
    /\ end_year \in FetchYears
    /\ submitted = 0
    /\ queue = << >>
    /\ running = {}
    /\ results = EmptyResults
    /\ succeeded = {}
    /\ all_holiday_days = EmptyIndex
    /\ seen = NotSeen

\* asyncio.gather starts the next fetch_with_executor: run_in_executor
\* submits the year to the pool.
Submit ==
    /\ fpc = "gather"
    /\ submitted < Len(years_to_fetch(start_year, end_year))
    /\ queue' = Append(queue, years_to_fetch(start_year, end_year)[submitted + 1])
    /\ submitted' = submitted + 1
    /\ UNCHANGED <<fpc, start_year, end_year, running, results, succeeded,
                   all_holiday_days, before, seen>>
    /\ UNCHANGED <<clockVars, tagVars, oracleVars>>

\* A thread of the pool takes the oldest queued year and sends its request.
StartRequest ==
    /\ queue # << >>
    /\ HasFreeThread(Cardinality(running))
    /\ running' = running \cup {Head(queue)}
    /\ queue' = Tail(queue)
    /\ UNCHANGED <<fpc, start_year, end_year, submitted, results, succeeded,
                   all_holiday_days, before, seen>>
    /\ UNCHANGED <<clockVars, tagVars, oracleVars>>

\* The request of year ends, one way or another, and
\* _fetch_holiday_days_sync returns.
Complete(year, response) ==
    /\ year \in running
    /\ running' = running \ {year}
    /\ results' = [y \in DOMAIN results \cup {year} |->
                      IF y = year THEN _fetch_holiday_days_sync(year, response)
                      ELSE results[y]]
    /\ succeeded' = IF response = "ok" THEN succeeded \cup {year} ELSE succeeded
    /\ UNCHANGED <<fpc, start_year, end_year, submitted, queue,
                   all_holiday_days, before, seen>>
    /\ UNCHANGED <<clockVars, tagVars, oracleVars>>

\* gather has every result and the with block has shut the pool down;
\* lines 52-53 merge the results in the order of years_to_fetch.
Join ==
    /\ fpc = "gather"
    /\ submitted = Len(years_to_fetch(start_year, end_year))
    /\ queue = << >>
    /\ running = {}
    /\ all_holiday_days' =
            MergeFrom([i \in DOMAIN years_to_fetch(start_year, end_year) |->
                          results[years_to_fetch(start_year, end_year)[i]]],
                      1, EmptyIndex)
    /\ fpc' = "merged"
    /\ UNCHANGED <<start_year, end_year, submitted, queue, running, results,
                   succeeded, before, seen>>
    /\ UNCHANGED <<clockVars, tagVars, provider, pc, now, today, latest_trading_day,
                   walked, present, batched, prev, iw, cache>>

\* open(HOLIDAYS_CACHE_PATH, "w"): the file is there and empty.
Open ==
    /\ fpc = "merged"
    /\ cache' = Empty
    /\ fpc' = "opened"
    /\ UNCHANGED <<start_year, end_year, submitted, queue, running, results,
                   succeeded, all_holiday_days, before, seen>>
    /\ UNCHANGED <<clockVars, tagVars, provider, pc, now, today, latest_trading_day,
                   walked, present, batched, prev, iw>>

\* json.dump writes through the file object's buffer: on disk there is
\* nothing yet, or the first part of the text.
Dump ==
    /\ fpc = "opened"
    /\ cache' \in {Empty, Partial}
    /\ fpc' = "dumped"
    /\ UNCHANGED <<start_year, end_year, submitted, queue, running, results,
                   succeeded, all_holiday_days, before, seen>>
    /\ UNCHANGED <<clockVars, tagVars, provider, pc, now, today, latest_trading_day,
                   walked, present, batched, prev, iw>>

\* The with block closes the file, the whole text is on disk, and the
\* index is returned.
Close ==
    /\ fpc = "dumped"
    /\ cache' = Json(all_holiday_days)
    /\ fpc' = "returned"
    /\ UNCHANGED <<start_year, end_year, submitted, queue, running, results,
                   succeeded, all_holiday_days, before, seen>>
    /\ UNCHANGED <<clockVars, tagVars, provider, pc, now, today, latest_trading_day,
                   walked, present, batched, prev, iw>>

\* A second thread's is_workday reaches json.load (or finds no file).
ReaderLoads ==
    /\ fpc # "off"
    /\ seen' = cache
    /\ UNCHANGED <<fpc, start_year, end_year, submitted, queue, running,
                   results, succeeded, all_holiday_days, before>>
    /\ UNCHANGED <<clockVars, tagVars, oracleVars>>

NextFetch ==
    \/ Submit
    \/ StartRequest
    \/ \E year \in FetchYears, response \in Responses : Complete(year, response)
    \/ Join
    \/ Open
    \/ Dump
    \/ Close
    \/ ReaderLoads

SpecFetch == InitFetch /\ [][NextFetch]_vars

\* The batch under fair scheduling: the event loop runs a task that can
\* run, the pool's threads take queued work, every request resolves
\* (requests.get has timeout=10 and every exception is caught), and the
\* write goes on.  The second reader is under no obligation.
EndRequest == \E year \in FetchYears, response \in Responses : Complete(year, response)

FairFetch ==
    /\ WF_vars(Submit)
    /\ WF_vars(StartRequest)
    /\ WF_vars(EndRequest)
    /\ WF_vars(Join)
    /\ WF_vars(Open)
    /\ WF_vars(Dump)
    /\ WF_vars(Close)

SpecFetchFair == InitFetch /\ [][NextFetch]_vars /\ FairFetch

----------------------------------------------------------------------------
(* SpecTag: the taggers on every date of the years the table spans. *)

TagFirstYear == 1996
TagLastYear == 2026

TagDates ==
    {<<y, m, d>> : y \in TagFirstYear..TagLastYear, m \in 1..12, d \in 1..31}
        \ {<<y, m, d>> \in (TagFirstYear..TagLastYear) \X (1..12) \X (1..31) :
                d > DaysIn(y, m)}

\* How many rows of the table lend their start date as a second element of
\* the series.
MaxExtra == 2

ExtraDates == {load_special_events[i].start : i \in 1..MaxExtra}

InitTag ==
    /\ OracleUnused
    /\ ClockAtImport
    /\ FetchUnused
    /\ date \in TagDates
    /\ trade_dates = <<>>
    /\ tagged = NotCalled
    /\ result = <<>>

MarkSpecialEvents ==
    /\ tagged = NotCalled
    /\ tagged' = mark_special_events(date)
    /\ UNCHANGED <<date, trade_dates, result>>
    /\ UNCHANGED oracleVars
    /\ UNCHANGED <<fetchVars, clockVars>>

MarkSpecialEventsFaster ==
    /\ trade_dates = <<>>
    /\ \E series \in {<<date>>} \cup {<<date, e>> : e \in ExtraDates} :
        /\ trade_dates' = series
        /\ result' = mark_special_events_faster(series)
    /\ UNCHANGED <<date, tagged>>
    /\ UNCHANGED oracleVars
    /\ UNCHANGED <<fetchVars, clockVars>>

NextTag == MarkSpecialEvents \/ MarkSpecialEventsFaster

SpecTag == InitTag /\ [][NextTag]_vars

----------------------------------------------------------------------------
(* Properties *)

\* d is a trading day by the file as it stands: is_workday(d) answers true
\* from the file, whatever the provider would do.
OnFile(c, d) ==
    /\ c.kind = "json"
    /\ YearStr(d[1]) \in DOMAIN c.index
    /\ Strftime(d) \in Range(c.index[YearStr(d[1])])

\* The days strictly between two dates.
DaysBetween(lo, hi) == {x \in OracleDates : DateLT(lo, x) /\ DateLT(x, hi)}

\* C1: for every date d, mark_special_events(d) equals
\* mark_special_events_faster([d])[0], a date in no interval and a date in
\* overlapping intervals included.
C1_TaggersAgree ==
    (tagged # NotCalled /\ trade_dates # << >>) => result[1] = tagged

\* C2: the date get_latest_cn_trading_day returns is not later than the
\* reference date, and is_workday of it is true.
C2_LatestNotLaterAndTrading ==
    pc = "done" =>
        /\ DateLE(latest_trading_day, today)
        /\ \A responses \in BatchResponses(cache, latest_trading_day) :
              LET r == is_workday(cache, latest_trading_day, responses)
              IN  r.raised = None /\ r.value

\* The walk went back over a year that a batch had to fetch, and returned.
C2_Witness ==
    /\ pc = "done"
    /\ batched
    /\ latest_trading_day[1] < today[1]

\* C3 as stated: for a trading day T, at T 08:59 the result is a trading
\* day strictly before T with no trading day between the two, and at
\* T 09:00 the result is T.
C3_CutoffAsStated ==
    (pc = "done" /\ <<today, TRUE>> \in walked) =>
        IF now.hour < CutoffHour
        THEN /\ DateLT(latest_trading_day, today)
             /\ OnFile(cache, latest_trading_day)
             /\ \A x \in DaysBetween(latest_trading_day, today) : ~OnFile(cache, x)
        ELSE latest_trading_day = today

\* C3 amended: for a trading day T, at T 09:00 the result is T; at T 08:59
\* a call that returns gives a trading day strictly before T such that
\* is_workday answered false, in this call, for every day between the two;
\* and if the call ran no fetch batch, no trading day of the cache file
\* lies between the two.
C3_CutoffAmended ==
    (pc = "done" /\ <<today, TRUE>> \in walked) =>
        IF now.hour < CutoffHour
        THEN /\ DateLT(latest_trading_day, today)
             /\ OnFile(cache, latest_trading_day)
             /\ \A x \in DaysBetween(latest_trading_day, today) :
                    <<x, FALSE>> \in walked
             /\ ~batched =>
                    \A x \in DaysBetween(latest_trading_day, today) :
                        ~OnFile(cache, x)
        ELSE latest_trading_day = today

\* Before the cutoff on a trading day, the call went back over at least one
\* day that is no trading day, running a batch on the way.
C3_Witness ==
    /\ pc = "done"
    /\ <<today, TRUE>> \in walked
    /\ now.hour < CutoffHour
    /\ batched
    /\ DaysBetween(latest_trading_day, today) # {}

\* The conclusion of C4 for the call that has just returned and the one
\* before it.
ResultsOrdered ==
    /\ DateLT(prev.today, today) => DateLE(prev.result, latest_trading_day)
    /\ DateLT(today, prev.today) => DateLE(latest_trading_day, prev.result)

\* C4 as stated: for two reference instants whose years are both in the
\* cache, d1.date < d2.date implies
\* get_latest_cn_trading_day(d1) <= get_latest_cn_trading_day(d2).
C4_MonotoneAsStated ==
    (pc = "done" /\ prev.valid /\ prev.present /\ present) => ResultsOrdered

\* C4 amended: for two reference instants whose years are both in the cache
\* and whose walks run no fetch batch (every year either walk visits is in
\* the cache file), d1.date < d2.date implies
\* get_latest_cn_trading_day(d1) <= get_latest_cn_trading_day(d2).
C4_MonotoneNoBatch ==
    (pc = "done" /\ prev.valid /\ prev.clean /\ ~batched) => ResultsOrdered

\* Two calls with no batch, the second of a later date, both walked back,
\* to different days.
C4_Witness ==
    /\ pc = "done"
    /\ prev.valid /\ prev.clean /\ ~batched
    /\ DateLT(prev.today, today)
    /\ prev.result # prev.today
    /\ latest_trading_day # today
    /\ DateLT(prev.result, latest_trading_day)

\* C5: with the file there and holding the year of d, is_workday(d) returns
\* whether d's MMDD marker is in that year's entry, asks the provider
\* nothing and leaves the file as it was; asked again, it answers the same.
C5_CacheHit ==
    (iw.valid /\ iw.before.kind = "json"
              /\ YearStr(iw.date[1]) \in DOMAIN iw.before.index) =>
        /\ iw.raised = None
        /\ iw.value = (Strftime(iw.date) \in Range(iw.before.index[YearStr(iw.date[1])]))
        /\ iw.requests = {}
        /\ cache = iw.before
        /\ \A responses \in [DefaultYears -> OracleResponses] :
              LET again == is_workday(cache, iw.date, responses)
              IN  /\ again.value = iw.value
                  /\ again.requests = {}
                  /\ again.cache = cache

\* A hit that answered true.
C5_Witness ==
    /\ iw.valid
    /\ iw.before.kind = "json"
    /\ YearStr(iw.date[1]) \in DOMAIN iw.before.index
    /\ iw.value

\* The years the batch was asked for.
Requested == Range(years_to_fetch(start_year, end_year))

\* C6: a request that fails does not abort the batch and raises nothing;
\* the index returned has exactly the years whose request succeeded as keys.
C6_FailureIsolation ==
    fpc \in {"merged", "opened", "dumped", "returned"} =>
        /\ DOMAIN results = Requested
        /\ DOMAIN all_holiday_days = {YearStr(y) : y \in succeeded}

\* Five years requested, two failed: the batch returned three keys.
C6_Witness ==
    /\ fpc = "returned"
    /\ Cardinality(Requested) = 5
    /\ Cardinality(succeeded) = 3
    /\ Cardinality(DOMAIN all_holiday_days) = 3

\* C7: at most 3 requests are in flight in every state of a batch, however
\* many years are requested; a further one starts only after one in flight
\* has completed.
C7_BoundedConcurrency ==
    /\ Cardinality(running) <= 3
    /\ (Cardinality(running) = 3 /\ queue # << >>) => ~ENABLED StartRequest

\* Three requests in flight and a year waiting in the queue.
C7_Witness ==
    /\ Cardinality(running) = 3
    /\ queue # << >>

\* C8: with the file there but unparseable, is_workday does not fail: it
\* fetches, overwrites the file and returns a boolean.
C8_CorruptRecovered ==
    (iw.valid /\ iw.before.kind = "corrupt") =>
        /\ iw.raised = None
        /\ iw.fetched
        /\ cache.kind = "json"

\* C9: if the year of d is still absent from the index after the fetch the
\* miss set off, is_workday(d) returns false and raises nothing.
C9_YearUnavailable ==
    (iw.valid /\ iw.fetched /\ YearStr(iw.date[1]) \notin DOMAIN cache.index) =>
        /\ iw.raised = None
        /\ iw.value = FALSE

\* A miss whose batch brought other years but not the one asked for, which
\* is in the range the batch requested.
C9_Witness ==
    /\ iw.valid
    /\ iw.fetched
    /\ iw.date[1] \in iw.requests
    /\ YearStr(iw.date[1]) \notin DOMAIN cache.index
    /\ DOMAIN cache.index # {}

\* C10: a reader that loads the cache file at any point of the batch's
\* write finds the whole previous contents or the whole new contents.
C10_AtomicSave ==
    seen # NotSeen =>
        \/ seen = before
        \/ fpc \in {"opened", "dumped", "returned"} /\ seen = Json(all_holiday_days)

\* The index a batch is to return: the provider's list of every year whose
\* request succeeded, under the year's string, and no other key.
SuccessfulUnion ==
    [k \in {YearStr(y) : y \in succeeded} |->
        provider[CHOOSE y \in succeeded : YearStr(y) = k]]

\* C11: in a batch the cache file is written once, only after every
\* request of the batch has completed; until then it is as it was before,
\* and after the write it holds exactly the index the batch returns, the
\* union of the successful per-year results with nothing of the previous
\* contents.
C11_JoinThenFullReplace ==
    /\ fpc \in {"gather", "merged"} => cache = before
    /\ fpc \in {"merged", "opened", "dumped", "returned"} =>
        /\ submitted = Len(years_to_fetch(start_year, end_year))
        /\ queue = << >>
        /\ running = {}
        /\ DOMAIN results = Requested
        /\ all_holiday_days = SuccessfulUnion
    /\ fpc = "returned" =>
        /\ cache = Json(all_holiday_days)
        /\ cache.index = SuccessfulUnion
        /\ ~ENABLED Open
        /\ ~ENABLED Dump
        /\ ~ENABLED Close

\* A batch over an older file of every year has returned, some requests
\* having failed and some succeeded: the failed years are gone from the
\* file and the others hold the provider's lists.
C11_Witness ==
    /\ fpc = "returned"
    /\ before = Json(OldIndex)
    /\ succeeded # {}
    /\ Requested \ succeeded # {}
    /\ cache.kind = "json"
    /\ DOMAIN cache.index = {YearStr(y) : y \in succeeded}
    /\ \A k \in DOMAIN cache.index : cache.index[k] # OldIndex[k]

\* The answer of is_workday for the first day of year y, from an index.
AnswerFrom(index, y) == FirstMarker \in Range(Get(index, YearStr(y)))

C13_MissHandling ==
    iw.valid =>
        /\ iw.fetched <=>
                \/ iw.before.kind = "missing"
                \/ /\ iw.before.kind = "json"
                   /\ YearStr(iw.date[1]) \notin DOMAIN iw.before.index
        /\ iw.batches = (IF iw.fetched THEN 1 ELSE 0)
        /\ iw.fetched =>
                /\ iw.requests = DefaultYears
                /\ iw.raised = None
                /\ cache.kind = "json"
                /\ iw.value = (Strftime(iw.date)
                                \in Range(Get(cache.index, YearStr(iw.date[1]))))
        /\ ~iw.fetched => (iw.requests = {} /\ cache = iw.before)
        /\ iw.before.kind = "missing" => iw.raised = None

\* The file held other years but not the one asked for; the batch brought
\* it, and the answer is the fresh index's, true, where the index loaded
\* had no entry to answer from.
C13_Witness ==
    /\ iw.valid
    /\ iw.before.kind = "json"
    /\ DOMAIN iw.before.index # {}
    /\ YearStr(iw.date[1]) \notin DOMAIN iw.before.index
    /\ iw.fetched
    /\ iw.batches = 1
    /\ iw.value

\* C14: get_latest_cn_trading_day ends with a date and has no failure of
\* its own: a call that raised did so because is_workday raised (the file
\* was there and json.load could not parse it), never because the walk ran
\* out of dates.
C14_WalkNeverFails ==
    pc = "raised" => cache.kind \notin {"missing", "json"}

\* C15: a fetch that is_workday runs on a miss requests every year from
\* 1990 through the calendar year current at the time of the call, also
\* after the calendar year has changed while the process was running.
C15_DefaultRangeToCurrentYear ==
    (iw.valid /\ iw.fetched) => iw.requests = StartYear..this_year

\* C16 as stated: when the reference date is no trading day, at every hour
\* the result is the greatest trading day strictly before it.
C16_NonTradingAsStated ==
    (pc = "done" /\ <<today, FALSE>> \in walked /\ ~OnFile(cache, today)) =>
        /\ DateLT(latest_trading_day, today)
        /\ OnFile(cache, latest_trading_day)
        /\ \A x \in DaysBetween(latest_trading_day, today) : ~OnFile(cache, x)

\* C16 amended: when is_workday answers false for the reference date, at
\* every hour a call that returns gives the first day before it that
\* is_workday answers true for: a trading day, every day between the two
\* answered false in this call and no earlier day asked (no extra step
\* back); and if the call ran no fetch batch, no trading day of the cache
\* file lies between the two.
C16_NonTradingAmended ==
    (pc = "done" /\ <<today, FALSE>> \in walked) =>
        /\ DateLT(latest_trading_day, today)
        /\ OnFile(cache, latest_trading_day)
        /\ \A x \in DaysBetween(latest_trading_day, today) :
                <<x, FALSE>> \in walked
        /\ \A w \in walked : DateLE(latest_trading_day, w[1])
        /\ ~batched =>
                \A x \in DaysBetween(latest_trading_day, today) :
                    ~OnFile(cache, x)

\* Before the cutoff on a day that is no trading day, the call returned
\* the day before, itself preceded by a trading day the call did not go
\* back to.
C16_Witness ==
    /\ pc = "done"
    /\ now.hour = CutoffHour - 1
    /\ <<today, FALSE>> \in walked
    /\ ~batched
    /\ latest_trading_day = PrevDay(today)
    /\ OnFile(cache, PrevDay(latest_trading_day))

\* C17: if every request resolves and the workers are scheduled fairly,
\* every batch completes: every requested year is dispatched and resolved,
\* the driver resumes, the cache file is written and the index returned.
C17_BatchCompletes ==
    <>(/\ fpc = "returned"
       /\ submitted = Len(years_to_fetch(start_year, end_year))
       /\ DOMAIN results = Requested
       /\ cache = Json(all_holiday_days))

\* A batch of more years than the pool has threads, every request of
\* which failed, has returned.
C17_Witness ==
    /\ fpc = "returned"
    /\ Cardinality(Requested) > MaxWorkers
    /\ succeeded = {}
    /\ cache = Json(EmptyIndex)

\* The rows of the table whose interval, both ends included, holds d.
Matching(d) ==
    {i \in 1..Len(SPECIAL_EVENTS) :
        /\ DateLE(ParseDate(SPECIAL_EVENTS[i].span[1]), d)
        /\ DateLE(d, ParseDate(SPECIAL_EVENTS[i].span[2]))}

\* C18: mark_special_events(d) returns the name of the first row, in the
\* table's order, whose interval holds d, both end dates included, and None
\* when no interval holds d; 2015-07-15 is tagged with the 2015 crash
\* (2015年股灾) and 2014-12-31 gets None.
C18_FirstMatchInclusive ==
    tagged # NotCalled =>
        /\ Matching(date) = {} => tagged = None
        /\ Matching(date) # {} =>
                \E i \in Matching(date) :
                    /\ \A j \in Matching(date) : i <= j
                    /\ tagged = SPECIAL_EVENTS[i].name
        /\ date = <<2015, 7, 15>> => tagged = "2015nian_guzai"
        /\ date = <<2014, 12, 31>> => tagged = None

\* 2016-01-04 is the start date of two rows and inside two more; the tag
\* is the name of the first of them in the table (2016年股市熔断).
C18_Witness ==
    /\ date = <<2016, 1, 4>>
    /\ Cardinality(Matching(date)) = 4
    /\ tagged = "2016nian_gushi_rongduan"

C20_StableAsStated ==
    [][cache.kind = "json" =>
        /\ cache'.kind = "json"
        /\ \A k \in DOMAIN cache.index :
                /\ k \in DOMAIN cache'.index
                /\ cache'.index[k] = cache.index[k]]_vars

\* C20 amended: a year present in the cache file stays present, with the
\* same markers, over every is_workday call (a caller's or a walk's) for a
\* date whose year is in the file: such a call runs no batch and leaves
\* the file as it is.
C20_StableOverHits ==
    [][cache.kind = "json" =>
        /\ (iw'.valid /\ YearStr(iw'.date[1]) \in DOMAIN cache.index) =>
                cache' = cache
        /\ (pc \in {"step1", "step2"}
                /\ YearStr(latest_trading_day[1]) \in DOMAIN cache.index) =>
                cache' = cache
        /\ (iw'.valid /\ ~iw'.fetched) => cache' = cache]_vars

\* A walk over two years, both in the file, has returned without a batch;
\* the file holds both years still, with markers.
C20_Witness ==
    /\ pc = "done"
    /\ ~batched
    /\ \E v \in walked, w \in walked : v[1][1] # w[1][1]
    /\ \A w \in walked :
            /\ YearStr(w[1][1]) \in DOMAIN cache.index
            /\ cache.index[YearStr(w[1][1])] # << >>

====
